---- MODULE Spec2Model ----
(***************************************************************************)
(* gofs (src/main.go): a single-process HTTP file server.  The model       *)
(* covers the storage handlers (upload, delete, the static file server),   *)
(* the utility handlers, the Gzip decorator and the process-wide metric    *)
(* maps reqTimes / reqSeconds.                                             *)
(*                                                                         *)
(* Strings are sequences of one-character strings, so that TrimPrefix,     *)
(* TrimSpace, Split, Contains, Atoi and filepath.Clean are computed as     *)
(* the Go library computes them.  The filesystem is a function from        *)
(* absolute paths (sequences of path elements) to directory/file entries.*)
(***************************************************************************)
EXTENDS Integers, Sequences, FiniteSets, TLC

VARIABLES
    dir,         \* the package-level `dir` (the -d flag value as given)
    fs,          \* the filesystem: absolute path -> DirEntry or FileEntry
    reqTimes,    \* map[string]int64, keyed by r.URL.Path
    reqSeconds,  \* map[string]float64 (in clock ticks), keyed by r.URL.Path
    last,        \* the request handled last and the response it got
    nreq,        \* requests handled so far
    gor,         \* the request goroutines of the concurrent specifications
    crashed,     \* the runtime aborted the process (fatal error)
    gz           \* the state of one request inside the Gzip decorator

vars == <<dir, fs, reqTimes, reqSeconds, last, nreq, gor, crashed, gz>>

----------------------------------------------------------------------------
(* Bounds of the model *)

MaxRequests == 2
NumGoroutines == 3

\* what timeCost can return, in clock ticks
ElapsedTicks == {0, 1}

----------------------------------------------------------------------------
(* package strings / strconv *)

Min(S) == CHOOSE x \in S : \A y \in S : x <= y
Max(S) == CHOOSE x \in S : \A y \in S : x >= y

HasPrefix(s, p) == Len(p) <= Len(s) /\ SubSeq(s, 1, Len(p)) = p
HasSuffix(s, p) == Len(p) <= Len(s) /\ SubSeq(s, Len(s) - Len(p) + 1, Len(s)) = p
TrimPrefix(s, p) == IF HasPrefix(s, p) THEN SubSeq(s, Len(p) + 1, Len(s)) ELSE s
TrimSuffix(s, p) == IF HasSuffix(s, p) THEN SubSeq(s, 1, Len(s) - Len(p)) ELSE s

\* strings.Contains: substr occurs somewhere in s
Contains(s, substr) ==
    \E i \in 0..(Len(s) - Len(substr)) : SubSeq(s, i + 1, i + Len(substr)) = substr

\* strings.TrimSpace
TrimSpace(s) ==
    LET keep == {i \in 1..Len(s) : s[i] # " "}
    IN  IF keep = {} THEN <<>> ELSE SubSeq(s, Min(keep), Max(keep))

\* strings.Split(s, sep) for a one-character separator
RECURSIVE Split(_, _)
Split(s, sep) ==
    LET hits == {i \in 1..Len(s) : s[i] = sep}
    IN  IF hits = {} THEN <<s>>
        ELSE <<SubSeq(s, 1, Min(hits) - 1)>>
                 \o Split(SubSeq(s, Min(hits) + 1, Len(s)), sep)

\* strings.Join(elems, sep)
RECURSIVE JoinStr(_, _)
JoinStr(elems, sep) ==
    IF elems = <<>> THEN <<>>
    ELSE IF Len(elems) = 1 THEN elems[1]
    ELSE elems[1] \o sep \o JoinStr(Tail(elems), sep)

Digits == <<"0", "1", "2", "3", "4", "5", "6", "7", "8", "9">>
IsDigit(c) == \E d \in 1..10 : Digits[d] = c
DigitVal(c) == (CHOOSE d \in 1..10 : Digits[d] = c) - 1

RECURSIVE DecVal(_)
DecVal(ds) ==
    IF ds = <<>> THEN 0 ELSE 10 * DecVal(SubSeq(ds, 1, Len(ds) - 1)) + DigitVal(ds[Len(ds)])

\* strconv.Atoi: an optional sign and at least one decimal digit; anything
\* else is an error (the strings of the model stay far below 64 bits).
AtoiOk(s) ==
    LET body == IF s # <<>> /\ s[1] \in {"+", "-"} THEN Tail(s) ELSE s
    IN  body # <<>> /\ \A i \in 1..Len(body) : IsDigit(body[i])
Atoi(s) ==
    IF ~AtoiOk(s) THEN 0
    ELSE IF s[1] = "-" THEN 0 - DecVal(Tail(s))
    ELSE IF s[1] = "+" THEN DecVal(Tail(s))
    ELSE DecVal(s)

----------------------------------------------------------------------------
(* package path/filepath (unix) *)

Slash == <<"/">>
Dot == <<".">>
DotDot == <<".", ".">>

Rooted(p) == p # <<>> /\ p[1] = "/"

\* the non-empty, non-"." elements of p, with inner ".." resolved lexically
RECURSIVE CleanElems(_, _, _)
CleanElems(elems, out, rooted) ==
    IF elems = <<>> THEN out
    ELSE LET e == Head(elems)
             rest == Tail(elems)
         IN  IF e = <<>> \/ e = Dot THEN CleanElems(rest, out, rooted)
             ELSE IF e = DotDot
                  THEN IF out # <<>> /\ out[Len(out)] # DotDot
                       THEN CleanElems(rest, SubSeq(out, 1, Len(out) - 1), rooted)
                       ELSE IF rooted THEN CleanElems(rest, out, rooted)
                       ELSE CleanElems(rest, Append(out, e), rooted)
             ELSE CleanElems(rest, Append(out, e), rooted)

\* filepath.Clean
Clean(p) ==
    LET elems == CleanElems(Split(p, "/"), <<>>, Rooted(p))
    IN  IF Rooted(p) THEN Slash \o JoinStr(elems, Slash)
        ELSE IF elems = <<>> THEN Dot
        ELSE JoinStr(elems, Slash)

\* filepath.Join: empty elements are ignored, the rest joined and cleaned
Join(elems) ==
    LET nonEmpty == SelectSeq(elems, LAMBDA e : e # <<>>)
    IN  IF nonEmpty = <<>> THEN <<>> ELSE Clean(JoinStr(nonEmpty, Slash))

\* filepath.Dir: all but the last element, cleaned
Dir(p) ==
    LET hits == {i \in 1..Len(p) : p[i] = "/"}
    IN  IF hits = {} THEN Clean(<<>>) ELSE Clean(SubSeq(p, 1, Max(hits)))

----------------------------------------------------------------------------
(* The operating system's view: the working directory, path resolution,   *)
(* and the os calls the handlers make.                                    *)

DirEntry == [isDir |-> TRUE, data |-> <<>>]
FileEntry(data) == [isDir |-> FALSE, data |-> data]

\* The process is started in /h/r and serves it: `-d ./` (the default) or
\* `-d /h/r`.
Cwd == << <<"h">>, <<"r">> >>
CwdString == <<"/", "h", "/", "r">>
DirFlags == { <<".", "/">>, CwdString }

\* the absolute path (a sequence of elements) the kernel resolves p to
Resolve(p) ==
    IF Rooted(p) THEN CleanElems(Split(p, "/"), <<>>, TRUE)
    ELSE CleanElems(Cwd \o Split(p, "/"), <<>>, TRUE)

\* filepath.Abs
Abs(p) == IF Rooted(p) THEN Clean(p) ELSE Join(<<CwdString, p>>)

Exists(f, a) == a \in DOMAIN f
IsDir(f, a) == a \in DOMAIN f /\ f[a].isDir
IsFile(f, a) == a \in DOMAIN f /\ ~f[a].isDir
Parent(a) == SubSeq(a, 1, Len(a) - 1)
IsUnder(a, root) == Len(a) >= Len(root) /\ SubSeq(a, 1, Len(root)) = root

\* os.Mkdir of one directory
MkdirOk(f, a) == ~Exists(f, a) /\ a # <<>> /\ IsDir(f, Parent(a))
Mkdir(f, a) == [q \in DOMAIN f \cup {a} |-> IF q = a THEN DirEntry ELSE f[q]]

\* the prefixes of the cleaned path p, shortest first, as the strings
\* os.MkdirAll visits ("a", "a/b", ... or "/h", "/h/r", ...)
PathPrefixes(p) ==
    LET cuts == {i \in 2..Len(p) : p[i] = "/"} \cup {Len(p) + 1}
    IN  {SubSeq(p, 1, i - 1) : i \in cuts}

\* os.MkdirAll: every missing directory named by p is created, parents
\* first; it fails on a component that is a file or whose parent is gone.
RECURSIVE MkdirAllFrom(_, _, _)
MkdirAllFrom(f, p, n) ==
    LET todo == {q \in PathPrefixes(p) : Len(q) > n}
    IN  IF todo = {} THEN [ok |-> TRUE, fs |-> f]
        ELSE LET q == CHOOSE x \in todo : \A y \in todo : Len(x) <= Len(y)
                 a == Resolve(q)
             IN  IF IsDir(f, a) THEN MkdirAllFrom(f, p, Len(q))
                 ELSE IF MkdirOk(f, a) THEN MkdirAllFrom(Mkdir(f, a), p, Len(q))
                 ELSE [ok |-> FALSE, fs |-> f]
MkdirAll(f, p) == MkdirAllFrom(f, p, 0)

\* ioutil.WriteFile: open(O_WRONLY|O_CREATE|O_TRUNC) and write
WriteFileOk(f, p) ==
    LET a == Resolve(p)
    IN  a # <<>> /\ IsDir(f, Parent(a)) /\ ~IsDir(f, a)
WriteFile(f, p, data) ==
    LET a == Resolve(p)
    IN  [q \in DOMAIN f \cup {a} |-> IF q = a THEN FileEntry(data) ELSE f[q]]

\* os.RemoveAll rejects a path that ends in "." with EINVAL
EndsWithDot(p) == p = Dot \/ HasSuffix(p, <<"/", ".">>)

\* os.RemoveAll: the path and everything below it; "/" itself stays
RemoveAllFs(f, p) ==
    LET a == Resolve(p)
        keep == {q \in DOMAIN f : q = <<>> \/ ~IsUnder(q, a)}
    IN  [q \in keep |-> f[q]]

\* The errors os.RemoveAll can end with: none for a path that exists or
\* does not; EINVAL for a path ending in "."; EBUSY for "/"; and for a path
\* below a regular file either none or ENOTDIR, depending on the platform's
\* implementation (removeall_at.go / removeall_noat.go).
RemoveAllErrs(f, p) ==
    LET a == Resolve(p)
    IN  IF EndsWithDot(p) THEN {"EINVAL"}
        ELSE IF a = <<>> THEN {"EBUSY"}
        ELSE IF \E k \in 1..(Len(a) - 1) : IsFile(f, SubSeq(a, 1, k))
             THEN {"", "ENOTDIR"}
        ELSE {""}

----------------------------------------------------------------------------
(* The metric maps.  A Go map read of a missing key yields the zero value. *)

MapGet(m, k) == IF k \in DOMAIN m THEN m[k] ELSE 0
MapPut(m, k, v) == [x \in DOMAIN m \cup {k} |-> IF x = k THEN v ELSE m[x]]

\* the deferred func(t time.Time) every handler but metrics starts with:
\* reqTimes[r.URL.Path]++ ; reqSeconds[r.URL.Path] += timeCost(t)
RecordTimes(m, url) == MapPut(m, url, MapGet(m, url) + 1)
RecordSeconds(m, url, elapsed) == MapPut(m, url, MapGet(m, url) + elapsed)

----------------------------------------------------------------------------
(* Requests and responses *)

StatusOK == 200
StatusNoContent == 204
StatusMovedPermanently == 301
StatusNotFound == 404
StatusInternalServerError == 500

Succeeded == "Succeeded"                             \* "✔ Succeeded"
FailedNoFile == "Failed: no file specified"          \* "✘ Failed: no file specified"
FailedNotPost == "Failed: requst method must be post"
FailedFormFile == "Failed: http: no such file"
FailedIO == "Failed: "                               \* "✘ Failed: " + err.Error()
IsFailureMarker(text) == text \in {FailedNoFile, FailedNotPost, FailedFormFile, FailedIO}

\* a request no handler has seen, and the response of a handler that wrote nothing
NoReq ==
    [handler |-> "", method |-> "", url |-> <<>>, field |-> <<>>, hasFile |-> FALSE,
     filename |-> <<>>, data |-> <<>>, accept |-> <<>>,
     status |-> StatusOK, text |-> "", body |-> <<>>, hdrs |-> <<>>, enc |-> "",
     effect |-> "none", target |-> <<>>, panicked |-> FALSE, value |-> 0]

S_upload == <<"/", "u", "p", "l", "o", "a", "d">>
S_delete == <<"/", "d", "e", "l", "e", "t", "e">>

----------------------------------------------------------------------------
(* The router: main's http.Handle / http.HandleFunc calls, 567-603 *)

S_delay == <<"/", "d", "e", "l", "a", "y">>
S_echo == <<"/", "e", "c", "h", "o">>
S_ip == <<"/", "i", "p">>
S_uuid == <<"/", "u", "u", "i", "d">>
S_randstr == <<"/", "r", "a", "n", "d", "s", "t", "r">>
S_randint == <<"/", "r", "a", "n", "d", "i", "n", "t">>
S_ts == <<"/", "t", "s">>
S_dt == <<"/", "d", "t">>
S_healthz == <<"/", "h", "e", "a", "l", "t", "h", "z">>
S_metrics == <<"/", "m", "e", "t", "r", "i", "c", "s">>

\* every name is registered twice: "/name" and the subtree "/name/"
RouteNames ==
    {S_upload, S_delete, S_delay, S_echo, S_ip, S_uuid, S_randstr, S_randint,
     S_ts, S_dt, S_healthz, S_metrics}

\* the pattern ServeMux dispatches url under, without its trailing slash:
\* the route path key.  "/" takes what no other pattern matches.
RouteKey(url) ==
    LET hit == {n \in RouteNames : url = n \/ HasPrefix(url, n \o Slash)}
    IN  IF hit = {} THEN Slash ELSE CHOOSE n \in hit : TRUE

RegisteredRoutes == RouteNames \cup {Slash}

\* a request reaches a handler only under the handler's route
Routed(rq, name) == RouteKey(rq.url) = name

----------------------------------------------------------------------------
(* upload: src/main.go 234-323 *)

\* the destination subpath: the `path` form field, or what is left of the
\* URL after the "/upload" prefix and the file name are trimmed
UploadSubpath(rq) ==
    LET fpath == TrimSpace(rq.field)
    IN  IF fpath = <<>> THEN TrimSuffix(TrimPrefix(rq.url, S_upload), rq.filename)
        ELSE fpath

UploadFullPath(rq, d) == Join(<<d, UploadSubpath(rq), rq.filename>>)

\* the response and the filesystem upload leaves behind
UploadResult(rq, d, f) ==
    IF rq.method = "GET"
    THEN [NoReq EXCEPT !.text = "upload form", !.body = <<>>] @@ [fs |-> f]
    ELSE IF ~rq.hasFile
    THEN [NoReq EXCEPT !.text = FailedFormFile] @@ [fs |-> f]
    ELSE LET fullpath == UploadFullPath(rq, d)
             made == MkdirAll(f, Dir(fullpath)).fs
         IN  IF WriteFileOk(made, fullpath)
             THEN [NoReq EXCEPT !.text = Succeeded, !.effect = "write",
                                !.target = fullpath]
                      @@ [fs |-> WriteFile(made, fullpath, rq.data)]
             ELSE [NoReq EXCEPT !.text = FailedIO, !.effect = "write",
                                !.target = fullpath,
                                !.status = StatusInternalServerError]
                      @@ [fs |-> made]

----------------------------------------------------------------------------
(* delete: src/main.go 198-229 *)

DeleteFullPath(rq, d) == Join(<<d, TrimSpace(rq.field)>>)

\* whether delete gets as far as os.RemoveAll
DeleteRemoves(rq) == rq.method = "POST" /\ TrimSpace(rq.field) # <<>>

\* delete without the test of an empty filepath at 209-213
DeleteResultNoEmptyCheck(rq, d, f, err) ==
    IF rq.method = "POST"
    THEN LET fullpath == DeleteFullPath(rq, d)
         IN  IF err # ""
             THEN [NoReq EXCEPT !.text = FailedIO, !.effect = "remove",
                                !.target = fullpath]
                      @@ [fs |-> IF err = "EBUSY" THEN RemoveAllFs(f, fullpath) ELSE f]
             ELSE [NoReq EXCEPT !.text = Succeeded, !.effect = "remove",
                                !.target = fullpath]
                      @@ [fs |-> RemoveAllFs(f, fullpath)]
    ELSE [NoReq EXCEPT !.text = FailedNotPost] @@ [fs |-> f]

\* the response and the filesystem delete leaves behind; err is what
\* os.RemoveAll ended with ("" for nil)
DeleteResult(rq, d, f, err) ==
    IF rq.method = "POST"
    THEN IF TrimSpace(rq.field) = <<>>
         THEN [NoReq EXCEPT !.text = FailedNoFile, !.status = StatusOK] @@ [fs |-> f]
         ELSE LET fullpath == DeleteFullPath(rq, d)
              IN  IF err # ""
                  THEN [NoReq EXCEPT !.text = FailedIO, !.effect = "remove",
                                     !.target = fullpath]
                           @@ [fs |-> IF err = "EBUSY" THEN RemoveAllFs(f, fullpath) ELSE f]
                  ELSE [NoReq EXCEPT !.text = Succeeded, !.effect = "remove",
                                     !.target = fullpath]
                           @@ [fs |-> RemoveAllFs(f, fullpath)]
    ELSE [NoReq EXCEPT !.text = FailedNotPost] @@ [fs |-> f]

----------------------------------------------------------------------------
(* the static file server: src/main.go 560-567 and Gzip, 161-178 *)

S_gzip == <<"g", "z", "i", "p">>
S_index == <<"/", "i", "n", "d", "e", "x", ".", "h", "t", "m", "l">>

\* r.Header.Get: the first value of the header, "" when there is none
HeaderGet(values) == IF values = <<>> THEN <<>> ELSE values[1]

\* the test Gzip makes: line 168
GzipAccepted(accept) == Contains(HeaderGet(accept), S_gzip)

\* the names in a directory
Children(f, a) == {q[Len(q)] : q \in {x \in DOMAIN f : Len(x) = Len(a) + 1 /\ IsUnder(x, a)}}

\* http.FileServer(http.Dir(absdir)), absdir being main's local
\* `dir, err := filepath.Abs(dir)`
FileServer(d, f, url) ==
    LET name == Clean(url)
        a == Resolve(Join(<<Abs(d), name>>))
        slash == HasSuffix(url, Slash)
        index == Append(a, <<"i", "n", "d", "e", "x", ".", "h", "t", "m", "l">>)
    IN  IF HasSuffix(url, S_index)
        THEN [status |-> StatusMovedPermanently, text |-> "", body |-> <<>>]
        ELSE IF ~Exists(f, a)
        THEN [status |-> StatusNotFound, text |-> "404 page not found", body |-> <<>>]
        ELSE IF IsDir(f, a)
        THEN IF ~slash
             THEN [status |-> StatusMovedPermanently, text |-> "", body |-> <<>>]
             ELSE IF IsFile(f, index)
             THEN [status |-> StatusOK, text |-> "", body |-> f[index].data]
             ELSE [status |-> StatusOK, text |-> "listing", body |-> <<>>]
        ELSE IF slash
             THEN [status |-> StatusMovedPermanently, text |-> "", body |-> <<>>]
             ELSE [status |-> StatusOK, text |-> "", body |-> f[a].data]

\* the response of the static route
ServeResult(rq, d, f) ==
    LET r == FileServer(d, f, rq.url)
    IN  [NoReq EXCEPT !.status = r.status, !.text = r.text, !.body = r.body,
                      !.enc = IF GzipAccepted(rq.accept) THEN "gzip" ELSE ""]

----------------------------------------------------------------------------
(* The requests the model sends to the storage routes *)

FileContents == { <<1>>, <<2, 3>> }

P_a == <<"a">>
P_f == <<"f">>
P_up_a == <<".", ".", "/", "a">>
P_slash_a == <<"/", "a">>
P_sp_a_sp == <<" ", "a", " ">>

UploadReq(method, url, field, hasFile, filename, data) ==
    [NoReq EXCEPT !.handler = "upload", !.method = method, !.url = url, !.field = field,
                  !.hasFile = hasFile, !.filename = filename, !.data = data]

UploadRequests ==
    { UploadReq("GET", S_upload, <<>>, FALSE, <<>>, <<>>),
      UploadReq("POST", S_upload, P_a, FALSE, <<>>, <<>>),
      UploadReq("POST", S_upload \o <<"/", "a", "/", "f">>, <<>>, TRUE, P_f, <<1>>),
      UploadReq("POST", S_upload, P_a, TRUE, DotDot, <<1>>) }
    \cup { UploadReq("POST", S_upload, P_a, TRUE, P_f, data) : data \in FileContents }
    \cup { UploadReq("POST", S_upload, field, TRUE, P_f, <<1>>) :
               field \in {<<>>, P_f, P_up_a, P_slash_a, P_sp_a_sp} }

DeleteReq(method, field) ==
    [NoReq EXCEPT !.handler = "delete", !.method = method, !.url = S_delete,
                  !.field = field]

DeleteRequests ==
    { DeleteReq("GET", P_f) }
    \cup { DeleteReq("POST", field) :
               field \in { <<>>, <<" ">>, P_f, P_a, <<"a", "/", "f">>, P_up_a,
                           <<"/", "f">>, Dot, <<"f", "/", "x">> } }

AcceptEncodings ==
    { <<>>,                                                    \* no header
      << S_gzip >>,                                            \* gzip
      << <<"b", "r", ",", " ">> \o S_gzip >>,                  \* br, gzip
      << <<"b", "r">> >>,                                      \* br
      << <<"b", "r">>, S_gzip >>,                              \* two header lines
      << <<"n", "o", "t">> \o S_gzip >> }                      \* notgzip

ServeReq(url, accept) ==
    [NoReq EXCEPT !.handler = "static", !.method = "GET", !.url = url, !.accept = accept]

ServeRequests ==
    { ServeReq(url, <<>>) :
        url \in { <<"/">>, <<"/", "f">>, <<"/", "a", "/", "f">>, <<"/", "a">>,
                  <<"/", "x">> } }
    \cup { ServeReq(<<"/", "f">>, << S_gzip >>) }

----------------------------------------------------------------------------
(* The state the server starts in *)

Root == Cwd

EmptyRoot ==
    (<<>> :> DirEntry) @@ (<< <<"h">> >> :> DirEntry) @@ (Root :> DirEntry)

\* /h/r/f and /h/r/a/f inside the root, /h/a/f beside it
SomeFiles ==
    EmptyRoot
    @@ (Append(Root, <<"f">>) :> FileEntry(<<9>>))
    @@ (Append(Root, <<"a">>) :> DirEntry)
    @@ (Append(Append(Root, <<"a">>), <<"f">>) :> FileEntry(<<8, 9>>))
    @@ (<< <<"h">>, <<"a">> >> :> DirEntry)
    @@ (<< <<"h">>, <<"a">>, <<"f">> >> :> FileEntry(<<7>>))

InitialFilesystems == {EmptyRoot, SomeFiles}

NoGz == [pc |-> "idle"]

\* init() makes the two maps; main parses the flags
Init ==
    /\ dir \in DirFlags
    /\ fs \in InitialFilesystems
    /\ reqTimes = <<>>
    /\ reqSeconds = <<>>
    /\ last = NoReq
    /\ nreq = 0
    /\ gor = <<>>
    /\ crashed = FALSE
    /\ gz = NoGz

\* what a handler's response and deferred func leave in the state
Respond(rq, res, elapsed) ==
    /\ last' = [rq EXCEPT !.status = res.status, !.text = res.text, !.body = res.body,
                          !.hdrs = res.hdrs, !.enc = res.enc, !.effect = res.effect,
                          !.target = res.target, !.panicked = res.panicked,
                          !.value = res.value]
    /\ reqTimes' = RecordTimes(reqTimes, rq.url)
    /\ reqSeconds' = RecordSeconds(reqSeconds, rq.url, elapsed)
    /\ nreq' = nreq + 1

Upload ==
    /\ nreq < MaxRequests
    /\ \E rq \in UploadRequests, elapsed \in ElapsedTicks :
          LET res == UploadResult(rq, dir, fs)
          IN  Routed(rq, S_upload) /\ fs' = res.fs /\ Respond(rq, res, elapsed)
    /\ UNCHANGED <<dir, gor, crashed, gz>>

Delete ==
    /\ nreq < MaxRequests
    /\ \E rq \in DeleteRequests, elapsed \in ElapsedTicks :
          \E err \in (IF DeleteRemoves(rq)
                      THEN RemoveAllErrs(fs, DeleteFullPath(rq, dir)) ELSE {""}) :
             LET res == DeleteResult(rq, dir, fs, err)
             IN  Routed(rq, S_delete) /\ fs' = res.fs /\ Respond(rq, res, elapsed)
    /\ UNCHANGED <<dir, gor, crashed, gz>>

Serve ==
    /\ nreq < MaxRequests
    /\ \E rq \in ServeRequests, elapsed \in ElapsedTicks :
          Routed(rq, Slash) /\ Respond(rq, ServeResult(rq, dir, fs), elapsed)
    /\ UNCHANGED <<dir, fs, gor, crashed, gz>>

----------------------------------------------------------------------------
(* delay: 325-357 *)

\* time.ParseDuration, for the one form the model's requests use: decimal
\* digits and the unit "s"
ParseDurationOk(s) ==
    Len(s) >= 2 /\ s[Len(s)] = "s" /\ \A i \in 1..(Len(s) - 1) : IsDigit(s[i])
ParseDuration(s) == DecVal(SubSeq(s, 1, Len(s) - 1))

DelayArg(url) == IF url = S_delay THEN <<>> ELSE TrimPrefix(url, S_delay \o Slash)

\* the seconds delay sleeps, -1 when it returns before sleeping (343)
DelaySeconds(url) ==
    LET arg == DelayArg(url)
    IN  IF arg = <<>> THEN 0
        ELSE IF AtoiOk(arg) THEN Atoi(arg)
        ELSE IF ParseDurationOk(arg) THEN ParseDuration(arg)
        ELSE -1

DelayResult(rq) ==
    LET sec == DelaySeconds(rq.url)
    IN  IF sec < 0 THEN NoReq
        ELSE [NoReq EXCEPT !.text = "[Headers]:", !.value = sec]

----------------------------------------------------------------------------
(* echo: 359-413 *)

\* (\d*): the longest prefix of s made of digits
TakeDigits(s) ==
    SubSeq(s, 1, Min({i \in 1..Len(s) : ~IsDigit(s[i])} \cup {Len(s) + 1}) - 1)

\* ([^/]*) and (\S*): the longest prefix of s without the character stop
TakeUntil(s, stop) ==
    SubSeq(s, 1, Min({i \in 1..Len(s) : s[i] = stop} \cup {Len(s) + 1}) - 1)

SkipSlash(s) == IF s # <<>> /\ s[1] = "/" THEN Tail(s) ELSE s
DropN(s, n) == SubSeq(s, n + 1, Len(s))

\* regexp `/echo/?(\d*)/?([^/]*)/?(\S*)` on a path that starts with /echo:
\* every group is greedy and everything after it can match the empty
\* string, so each group takes its longest prefix
EchoMatch(url) ==
    LET r1 == SkipSlash(TrimPrefix(url, S_echo))
        scode == TakeDigits(r1)
        r2 == SkipSlash(DropN(r1, Len(scode)))
        headers == TakeUntil(r2, "/")
        r3 == SkipSlash(DropN(r2, Len(headers)))
        content == TakeUntil(r3, " ")
    IN  [scode |-> scode, headers |-> headers, content |-> content]

\* the items of `headers` the loop at 371-380 adds, in order: <<name, value>>
EchoHeaderItems(headers) ==
    SelectSeq([i \in 1..Len(Split(headers, ",")) |-> TrimSpace(Split(headers, ",")[i])],
              LAMBDA h : h # <<>>)

\* kv[1] exists for every item
EchoHeadersOk(headers) ==
    \A i \in 1..Len(EchoHeaderItems(headers)) :
        Len(Split(EchoHeaderItems(headers)[i], "=")) >= 2

EchoHeaders(headers) ==
    [i \in 1..Len(EchoHeaderItems(headers)) |->
        LET kv == Split(EchoHeaderItems(headers)[i], "=")
        IN  <<TrimSpace(kv[1]), TrimSpace(kv[2])>>]

EchoCode(scode) == IF AtoiOk(scode) THEN Atoi(scode) ELSE StatusOK

\* net/http: WriteHeader panics on a code outside 100..999
WriteHeaderOk(code) == code >= 100 /\ code <= 999
\* net/http: no body with 1xx, 204 and 304
BodyAllowed(code) == ~(code >= 100 /\ code <= 199) /\ code # StatusNoContent /\ code # 304

Newline == <<"\n">>

\* the response of echo; body holds the last line written, "\n<content>\n"
EchoResult(rq) ==
    LET m == EchoMatch(rq.url)
        code == EchoCode(m.scode)
    IN  IF ~EchoHeadersOk(m.headers)
        THEN [NoReq EXCEPT !.panicked = TRUE, !.status = 0]
        ELSE IF ~WriteHeaderOk(code)
        THEN [NoReq EXCEPT !.panicked = TRUE, !.status = 0,
                           !.hdrs = EchoHeaders(m.headers)]
        ELSE [NoReq EXCEPT !.status = code, !.hdrs = EchoHeaders(m.headers),
                           !.text = IF BodyAllowed(code) THEN "echo" ELSE "",
                           !.body = IF BodyAllowed(code)
                                    THEN Newline \o m.content \o Newline ELSE <<>>]

----------------------------------------------------------------------------
(* randint: 440-459 and randstr: 461-492 *)

RandintArg(url) == IF url = S_randint THEN <<>> ELSE TrimPrefix(url, S_randint \o Slash)
RandintDefault == 100
RandintMax(url) ==
    IF AtoiOk(RandintArg(url)) THEN Atoi(RandintArg(url)) ELSE RandintDefault

\* rand.Intn(n) panics unless n > 0
IntnOk(n) == n > 0
Intn(n) == 0..(n - 1)

\* the response of randint when rand.Intn returns v
RandintResult(rq, v) ==
    IF ~IntnOk(RandintMax(rq.url))
    THEN [NoReq EXCEPT !.panicked = TRUE, !.status = 0]
    ELSE [NoReq EXCEPT !.text = "%d", !.value = v]

RandstrArg(url) == IF url = S_randstr THEN <<>> ELSE TrimPrefix(url, S_randstr \o Slash)
RandstrDefault == 12
RandstrLength(url) ==
    IF AtoiOk(RandstrArg(url)) THEN Atoi(RandstrArg(url)) ELSE RandstrDefault

\* the response of randstr; n is the length drawn when the length given is 0.
\* make([]rune, length) panics on a negative length.  The letters drawn
\* are not kept, the length is.
RandstrResult(rq, n) ==
    LET length == IF RandstrLength(rq.url) = 0 THEN n + 1 ELSE RandstrLength(rq.url)
    IN  IF length < 0
        THEN [NoReq EXCEPT !.panicked = TRUE, !.status = 0]
        ELSE [NoReq EXCEPT !.text = "letters", !.value = length]

----------------------------------------------------------------------------
(* The requests the model sends to the utility routes *)

Req(handler, url) == [NoReq EXCEPT !.handler = handler, !.method = "GET", !.url = url]

DelayRequests ==
    { Req("delay", url) :
        url \in { S_delay, S_delay \o <<"/", "1">>, S_delay \o <<"/", "1", "s">>, S_delay \o <<"/", "x">> } }

EchoRequests ==
    { Req("echo", url) :
        url \in { S_echo,
                  S_echo \o <<"/", "2", "0", "1", "/", "X", "=", "o", "k", "/", "h", "e", "l", "l", "o">>,
                  S_echo \o <<"/", "2", "0", "1", "/", "X", "/", "h", "e", "l", "l", "o">>,
                  S_echo \o <<"/", "0", "/", "X", "=", "o", "k", "/", "h", "i">>,
                  S_echo \o <<"/", "a", "b", "c", "/", "X", "=", "o", "k", "/", "h", "i">>,
                  S_echo \o <<"/", "X", "=", "o", "k">>,
                  S_echo \o <<"/", "2", "0", "4", "/", "X", "=", "o", "k", "/", "h", "i">>,
                  S_echo \o <<"/", "2", "0", "1", "/", "X", "=", "a", ",", "Y", "=", "b", "/", "h", "i">> } }

RandintRequests ==
    { Req("randint", url) :
        url \in { S_randint, S_randint \o <<"/", "a", "b", "c">>, S_randint \o <<"/", "0">>,
                  S_randint \o <<"/", "-", "3">>, S_randint \o <<"/", "5">> } }

RandstrRequests ==
    { Req("randstr", url) :
        url \in { S_randstr, S_randstr \o <<"/", "3">>, S_randstr \o <<"/", "-", "1">> } }

IpRequests == { Req("ip", S_ip), Req("ip", S_ip \o <<"/", "x">>) }

----------------------------------------------------------------------------
(* The utility handlers.  A handler that panics still runs its deferred   *)
(* func; net/http recovers the panic and drops the connection.            *)

Delay ==
    /\ nreq < MaxRequests
    /\ \E rq \in DelayRequests, elapsed \in ElapsedTicks :
          /\ Routed(rq, S_delay)
          /\ Respond(rq, DelayResult(rq), elapsed + DelayResult(rq).value)
    /\ UNCHANGED <<dir, fs, gor, crashed, gz>>

Echo ==
    /\ nreq < MaxRequests
    /\ \E rq \in EchoRequests, elapsed \in ElapsedTicks :
          /\ Routed(rq, S_echo)
          /\ Respond(rq, EchoResult(rq), elapsed)
    /\ UNCHANGED <<dir, fs, gor, crashed, gz>>

Ip ==
    /\ nreq < MaxRequests
    /\ \E rq \in IpRequests, elapsed \in ElapsedTicks :
          /\ Routed(rq, S_ip)
          /\ Respond(rq, [NoReq EXCEPT !.text = "GetLocalIP()"], elapsed)
    /\ UNCHANGED <<dir, fs, gor, crashed, gz>>

Uuid ==
    /\ nreq < MaxRequests
    /\ \E elapsed \in ElapsedTicks :
          /\ Routed(Req("uuid", S_uuid), S_uuid)
          /\ Respond(Req("uuid", S_uuid), [NoReq EXCEPT !.text = "%x-%x-%x-%x-%x"], elapsed)
    /\ UNCHANGED <<dir, fs, gor, crashed, gz>>

Randstr ==
    /\ nreq < MaxRequests
    /\ \E rq \in RandstrRequests, elapsed \in ElapsedTicks :
          \E n \in (IF RandstrLength(rq.url) = 0 THEN Intn(100) ELSE {0}) :
             /\ Routed(rq, S_randstr)
             /\ Respond(rq, RandstrResult(rq, n), elapsed)
    /\ UNCHANGED <<dir, fs, gor, crashed, gz>>

Randint ==
    /\ nreq < MaxRequests
    /\ \E rq \in RandintRequests, elapsed \in ElapsedTicks :
          \E v \in (IF IntnOk(RandintMax(rq.url)) THEN Intn(RandintMax(rq.url)) ELSE {0}) :
             /\ Routed(rq, S_randint)
             /\ Respond(rq, RandintResult(rq, v), elapsed)
    /\ UNCHANGED <<dir, fs, gor, crashed, gz>>

Ts ==
    /\ nreq < MaxRequests
    /\ \E elapsed \in ElapsedTicks :
          /\ Routed(Req("ts", S_ts), S_ts)
          /\ Respond(Req("ts", S_ts), [NoReq EXCEPT !.text = "UnixMilli"], elapsed)
    /\ UNCHANGED <<dir, fs, gor, crashed, gz>>

Dt ==
    /\ nreq < MaxRequests
    /\ \E elapsed \in ElapsedTicks :
          /\ Routed(Req("dt", S_dt), S_dt)
          /\ Respond(Req("dt", S_dt), [NoReq EXCEPT !.text = "2006-01-02 15:04:05"], elapsed)
    /\ UNCHANGED <<dir, fs, gor, crashed, gz>>

Healthz ==
    /\ nreq < MaxRequests
    /\ \E elapsed \in ElapsedTicks :
          /\ Routed(Req("healthz", S_healthz), S_healthz)
          /\ Respond(Req("healthz", S_healthz), [NoReq EXCEPT !.text = "healthy"], elapsed)
    /\ UNCHANGED <<dir, fs, gor, crashed, gz>>

\* metrics has no deferred func: it renders the two maps and records
\* nothing.  The gofs_random sample is not kept.
Metrics ==
    /\ nreq < MaxRequests
    /\ Routed(Req("metrics", S_metrics), S_metrics)
    /\ last' = [Req("metrics", S_metrics) EXCEPT !.text = "exposition"]
    /\ nreq' = nreq + 1
    /\ UNCHANGED <<dir, fs, reqTimes, reqSeconds, gor, crashed, gz>>

----------------------------------------------------------------------------
(* Requests in flight together.  net/http runs every request on a         *)
(* goroutine of its own; the handlers share reqTimes and reqSeconds with  *)
(* no lock.  m[k]++ and m[k] += x are a read of the map followed by a     *)
(* write, and another goroutine can run in between.  The runtime aborts   *)
(* the process ("fatal error: concurrent map writes") when it catches two *)
(* goroutines inside the same map, one of them writing.                   *)

Goroutine(rq) == [rq |-> rq, pc |-> "idle", tmp |-> 0, text |-> "", status |-> StatusOK]

\* the server accepts the request of goroutine i
Arrive(i) ==
    /\ ~crashed
    /\ gor[i].pc = "idle"
    /\ gor' = [gor EXCEPT ![i].pc = "handler"]
    /\ UNCHANGED <<dir, fs, reqTimes, reqSeconds, last, nreq, crashed, gz>>

\* ip, 421: the body of the handler
IpHandler(i) ==
    /\ ~crashed
    /\ gor[i].pc = "handler" /\ gor[i].rq.handler = "ip"
    /\ gor' = [gor EXCEPT ![i].pc = "readTimes", ![i].text = "GetLocalIP()"]
    /\ UNCHANGED <<dir, fs, reqTimes, reqSeconds, last, nreq, crashed, gz>>

\* upload, 279-310: the form is parsed, the path joined, the directories made
UploadMkdirAll(i) ==
    /\ ~crashed
    /\ gor[i].pc = "handler" /\ gor[i].rq.handler = "upload"
    /\ fs' = MkdirAll(fs, Dir(UploadFullPath(gor[i].rq, dir))).fs
    /\ gor' = [gor EXCEPT ![i].pc = "write"]
    /\ UNCHANGED <<dir, reqTimes, reqSeconds, last, nreq, crashed, gz>>

\* upload, 312-321: the file is written and the marker sent
UploadWriteFile(i) ==
    /\ ~crashed
    /\ gor[i].pc = "write"
    /\ LET fullpath == UploadFullPath(gor[i].rq, dir)
       IN  IF WriteFileOk(fs, fullpath)
           THEN /\ fs' = WriteFile(fs, fullpath, gor[i].rq.data)
                /\ gor' = [gor EXCEPT ![i].pc = "readTimes", ![i].text = Succeeded]
           ELSE /\ fs' = fs
                /\ gor' = [gor EXCEPT ![i].pc = "readTimes", ![i].text = FailedIO,
                                      ![i].status = StatusInternalServerError]
    /\ UNCHANGED <<dir, reqTimes, reqSeconds, last, nreq, crashed, gz>>

\* the deferred func: reqTimes[r.URL.Path]++, its read
ReadTimes(i) ==
    /\ ~crashed
    /\ gor[i].pc = "readTimes"
    /\ gor' = [gor EXCEPT ![i].pc = "writeTimes", ![i].tmp = MapGet(reqTimes, gor[i].rq.url)]
    /\ UNCHANGED <<dir, fs, reqTimes, reqSeconds, last, nreq, crashed, gz>>

\* reqTimes[r.URL.Path]++, its write
WriteTimes(i) ==
    /\ ~crashed
    /\ gor[i].pc = "writeTimes"
    /\ reqTimes' = MapPut(reqTimes, gor[i].rq.url, gor[i].tmp + 1)
    /\ gor' = [gor EXCEPT ![i].pc = "readSeconds"]
    /\ UNCHANGED <<dir, fs, reqSeconds, last, nreq, crashed, gz>>

\* reqSeconds[r.URL.Path] += timeCost(t), its read
ReadSeconds(i) ==
    /\ ~crashed
    /\ gor[i].pc = "readSeconds"
    /\ gor' = [gor EXCEPT ![i].pc = "writeSeconds",
                          ![i].tmp = MapGet(reqSeconds, gor[i].rq.url)]
    /\ UNCHANGED <<dir, fs, reqTimes, reqSeconds, last, nreq, crashed, gz>>

\* reqSeconds[r.URL.Path] += timeCost(t), its write; the handler returns
\* and the server sends the response
WriteSeconds(i) ==
    /\ ~crashed
    /\ gor[i].pc = "writeSeconds"
    /\ \E elapsed \in ElapsedTicks :
          reqSeconds' = MapPut(reqSeconds, gor[i].rq.url, gor[i].tmp + elapsed)
    /\ gor' = [gor EXCEPT ![i].pc = "done"]
    /\ nreq' = nreq + 1
    /\ UNCHANGED <<dir, fs, reqTimes, last, crashed, gz>>

InTimes(i) == gor[i].pc \in {"readTimes", "writeTimes"}
InSeconds(i) == gor[i].pc \in {"readSeconds", "writeSeconds"}

\* two goroutines are inside the same map and one of them is writing
MapRace ==
    \E i, j \in DOMAIN gor :
        /\ i # j
        /\ \/ gor[i].pc = "writeTimes" /\ InTimes(j)
           \/ gor[i].pc = "writeSeconds" /\ InSeconds(j)

\* the runtime catches the race: the process dies, no response is sent
MapFault ==
    /\ ~crashed
    /\ MapRace
    /\ crashed' = TRUE
    /\ UNCHANGED <<dir, fs, reqTimes, reqSeconds, last, nreq, gor, gz>>

Done(i) == gor[i].pc = "done"
NumDone == Cardinality({i \in DOMAIN gor : Done(i)})
Quiescent == \A i \in DOMAIN gor : gor[i].pc \in {"idle", "done"}

\* NumGoroutines requests to /ip
InitRace ==
    /\ dir \in DirFlags
    /\ fs = EmptyRoot
    /\ reqTimes = <<>>
    /\ reqSeconds = <<>>
    /\ last = NoReq
    /\ nreq = 0
    /\ gor = [i \in 1..NumGoroutines |-> Goroutine(Req("ip", S_ip))]
    /\ crashed = FALSE
    /\ gz = NoGz

RaceNext ==
    \/ \E i \in DOMAIN gor : Arrive(i)
    \/ \E i \in DOMAIN gor : IpHandler(i)
    \/ \E i \in DOMAIN gor : ReadTimes(i)
    \/ \E i \in DOMAIN gor : WriteTimes(i)
    \/ \E i \in DOMAIN gor : ReadSeconds(i)
    \/ \E i \in DOMAIN gor : WriteSeconds(i)
    \/ MapFault

\* distinct files to distinct directories, none inside another, none
\* across a file or a directory of the initial filesystems
ConcurrentUploads ==
    << UploadReq("POST", S_upload, P_a, TRUE, P_f, <<1>>),
       UploadReq("POST", S_upload, <<"b">>, TRUE, <<"g">>, <<2, 3>>),
       UploadReq("POST", S_upload \o <<"/", "c", "/", "k">>, <<>>, TRUE, <<"k">>, <<4>>) >>

InitUploads ==
    /\ dir \in DirFlags
    /\ fs \in InitialFilesystems
    /\ reqTimes = <<>>
    /\ reqSeconds = <<>>
    /\ last = NoReq
    /\ nreq = 0
    /\ gor = [i \in 1..Len(ConcurrentUploads) |-> Goroutine(ConcurrentUploads[i])]
    /\ crashed = FALSE
    /\ gz = NoGz

UploadsNext ==
    \/ \E i \in DOMAIN gor : Arrive(i)
    \/ \E i \in DOMAIN gor : UploadMkdirAll(i)
    \/ \E i \in DOMAIN gor : UploadWriteFile(i)
    \/ \E i \in DOMAIN gor : ReadTimes(i)
    \/ \E i \in DOMAIN gor : WriteTimes(i)
    \/ \E i \in DOMAIN gor : ReadSeconds(i)
    \/ \E i \in DOMAIN gor : WriteSeconds(i)
    \/ MapFault

----------------------------------------------------------------------------
(* One request through Gzip(http.FileServer(...)), step by step: 161-178 *)

\* what the file server writes for the request: the bytes of the file (the
\* text of an error page or a listing is not followed byte by byte)
HandlerBytes(rq, d, f) == FileServer(d, f, rq.url).body

GzipRequests ==
    { ServeReq(url, accept) :
        url \in { <<"/", "f">>, <<"/", "a", "/", "f">>, <<"/", "x">> },
        accept \in AcceptEncodings }

\* the request arrives; the deferred func(t time.Time) takes time.Now()
GzipEnter ==
    /\ gz.pc \in {"idle", "done"}
    /\ nreq < MaxRequests
    /\ \E rq \in GzipRequests :
          gz' = [pc |-> "check", rq |-> rq, todo |-> HandlerBytes(rq, dir, fs),
                 written |-> <<>>, enc |-> "", encAtFirstByte |-> "none",
                 compressor |-> <<>>, wire |-> <<>>, returned |-> FALSE,
                 closed |-> "no"]
    /\ UNCHANGED <<dir, fs, reqTimes, reqSeconds, last, nreq, gor, crashed>>

\* 168-175: the Accept-Encoding test, the header, the gzip writer
GzipCheck ==
    /\ gz.pc = "check"
    /\ gz' = IF GzipAccepted(gz.rq.accept)
             THEN [gz EXCEPT !.pc = "gzip", !.enc = "gzip"]
             ELSE [gz EXCEPT !.pc = "plain"]
    /\ UNCHANGED <<dir, fs, reqTimes, reqSeconds, last, nreq, gor, crashed>>

\* 169: handler.ServeHTTP(w, r) writes a byte to w
PlainWrite ==
    /\ gz.pc = "plain" /\ gz.todo # <<>>
    /\ gz' = [gz EXCEPT !.todo = Tail(@), !.written = Append(@, Head(gz.todo)),
                        !.wire = Append(@, [gzip |-> FALSE, data |-> <<Head(gz.todo)>>]),
                        !.encAtFirstByte = IF @ = "none" THEN gz.enc ELSE @]
    /\ UNCHANGED <<dir, fs, reqTimes, reqSeconds, last, nreq, gor, crashed>>

\* 176 and 157-159: handler.ServeHTTP(gzw, r) writes a byte to gzw, whose
\* Write hands it to the gzip writer
GzipWrite ==
    /\ gz.pc = "gzip" /\ gz.todo # <<>>
    /\ gz' = [gz EXCEPT !.todo = Tail(@), !.written = Append(@, Head(gz.todo)),
                        !.compressor = Append(@, Head(gz.todo)),
                        !.encAtFirstByte = IF @ = "none" THEN gz.enc ELSE @]
    /\ UNCHANGED <<dir, fs, reqTimes, reqSeconds, last, nreq, gor, crashed>>

\* the handler returns
HandlerReturn ==
    /\ gz.pc \in {"plain", "gzip"} /\ gz.todo = <<>>
    /\ gz' = [gz EXCEPT !.returned = TRUE,
                        !.pc = IF gz.pc = "gzip" THEN "close" ELSE "record"]
    /\ UNCHANGED <<dir, fs, reqTimes, reqSeconds, last, nreq, gor, crashed>>

\* 174: the deferred gz.Close() sends what the compressor holds
GzipClose ==
    /\ gz.pc = "close"
    /\ gz' = [gz EXCEPT !.pc = "record",
                        !.closed = IF gz.returned THEN "after return" ELSE "early",
                        !.wire = Append(@, [gzip |-> TRUE, data |-> gz.compressor])]
    /\ UNCHANGED <<dir, fs, reqTimes, reqSeconds, last, nreq, gor, crashed>>

\* 163-166: the deferred func records the request
GzipRecord ==
    /\ gz.pc = "record"
    /\ \E elapsed \in ElapsedTicks :
          Respond(gz.rq, [ServeResult(gz.rq, dir, fs) EXCEPT !.enc = gz.enc], elapsed)
    /\ gz' = [gz EXCEPT !.pc = "done"]
    /\ UNCHANGED <<dir, fs, gor, crashed>>

InitGzip ==
    /\ dir \in DirFlags
    /\ fs = SomeFiles
    /\ reqTimes = <<>>
    /\ reqSeconds = <<>>
    /\ last = NoReq
    /\ nreq = 0
    /\ gor = <<>>
    /\ crashed = FALSE
    /\ gz = NoGz

GzipNext ==
    GzipEnter \/ GzipCheck \/ PlainWrite \/ GzipWrite \/ HandlerReturn \/ GzipClose
    \/ GzipRecord

----------------------------------------------------------------------------
(* Specifications *)

StorageNext == Upload \/ Delete \/ Serve

\* the storage routes alone, one request at a time
SpecStorage == Init /\ [][StorageNext]_vars

\* every route of the server, one request at a time
Next ==
    \/ Upload \/ Delete \/ Serve
    \/ Delay \/ Echo \/ Ip \/ Uuid \/ Randstr \/ Randint \/ Ts \/ Dt \/ Healthz
    \/ Metrics

Spec == Init /\ [][Next]_vars

\* requests to /ip on goroutines of their own
SpecRace == InitRace /\ [][RaceNext]_vars

\* uploads on goroutines of their own
SpecUploads == InitUploads /\ [][UploadsNext]_vars

\* requests to the static route, followed through the Gzip decorator
SpecGzip == InitGzip /\ [][GzipNext]_vars

----------------------------------------------------------------------------
(* Properties *)

\* the path ServeMux hands to the file server for a request of "/" p:
\* cleaned, so neither ".." nor "//" reaches a handler
CleanURL(p) == Clean(Slash \o p)

\* what a GET of "/" p answers over the filesystem f
ServeOf(p, f) == ServeResult(ServeReq(CleanURL(p), <<>>), dir, f)

\* C1: every path upload writes and every path delete removes is the root
\* or a descendant of the root.
C1_ConfinedToRoot ==
    last.effect # "none" => IsUnder(Resolve(last.target), Root)

\* C3: once upload has answered with the success marker for subpath S, file
\* name F and bytes B, a GET of S/F answers 200 with exactly B.
C3_UploadThenServe ==
    (last.handler = "upload" /\ last.text = Succeeded)
        => LET r == ServeOf(UploadSubpath(last) \o Slash \o last.filename, fs)
           IN  r.status = StatusOK /\ r.body = last.data

NoFileAbove(f, a) == \A n \in 1..(Len(a) - 1) : ~IsFile(f, SubSeq(a, 1, n))

\* C4: once delete has answered with the success marker for p, a GET of p
\* answers not-found; and a delete of a path that does not exist answers
\* with the success marker and leaves the filesystem as it was.
C4_DeleteThenNotFound ==
    [][ (nreq' = nreq + 1 /\ last'.handler = "delete" /\ DeleteRemoves(last'))
          => LET p == TrimSpace(last'.field)
                 target == Resolve(DeleteFullPath(last', dir))
             IN  /\ last'.text = Succeeded => ServeOf(p, fs').status = StatusNotFound
                 /\ (~Exists(fs, target) /\ NoFileAbove(fs, target))
                        => (last'.text = Succeeded /\ fs' = fs) ]_vars

\* C9: a delete whose filepath is empty or only whitespace, or whose method
\* is not POST, removes nothing, answers with a failure marker and leaves
\* the status at 200.
C9_RejectedDeleteRemovesNothing ==
    [][ (/\ nreq' = nreq + 1
         /\ last'.handler = "delete"
         /\ (last'.method # "POST" \/ TrimSpace(last'.field) = <<>>))
          => (fs' = fs /\ IsFailureMarker(last'.text) /\ last'.status = StatusOK) ]_vars

\* a POST to delete with a filepath of one space was refused while the root
\* held a file
C9_Witness ==
    /\ last.handler = "delete" /\ last.method = "POST"
    /\ last.field = <<" ">>
    /\ last.text = FailedNoFile
    /\ IsFile(fs, Append(Root, <<"f">>))

\* C6: randint never panics, and its number is in [0, 100) when the segment
\* is missing or not numeric and in [0, max) when it is the integer max.
C6_RandintInRange ==
    last.handler = "randint"
        => /\ ~last.panicked
           /\ last.value \in 0..((IF AtoiOk(RandintArg(last.url))
                                  THEN Atoi(RandintArg(last.url)) ELSE 100) - 1)

EchoSegments(url) == Split(TrimPrefix(url, S_echo \o Slash), "/")
Range(seq) == {seq[i] : i \in DOMAIN seq}

\* C7: for /echo/<statusCode>/<headers>/<body> echo does not crash; the
\* status is the numeric code, or 200 when the segment is not numeric; every
\* name=value item of <headers> is a response header; the body ends with
\* <body>.
C7_EchoReflectsPath ==
    (/\ last.handler = "echo"
     /\ HasPrefix(last.url, S_echo \o Slash)
     /\ Len(EchoSegments(last.url)) >= 3)
        => LET segs == EchoSegments(last.url)
               items == Split(segs[2], ",")
               content == JoinStr(SubSeq(segs, 3, Len(segs)), "/")
           IN  /\ ~last.panicked
               /\ last.status = (IF AtoiOk(segs[1]) THEN Atoi(segs[1]) ELSE StatusOK)
               /\ \A i \in DOMAIN items :
                     Len(Split(items[i], "=")) = 2
                        => <<TrimSpace(Split(items[i], "=")[1]),
                             TrimSpace(Split(items[i], "=")[2])>> \in Range(last.hdrs)
               /\ \/ HasSuffix(last.body, content)
                  \/ HasSuffix(last.body, content \o Newline)

\* C10: every request adds one to the counter of the route it was sent to,
\* and to no other; every label of the metrics is a registered route.
C10_RecordedOncePerRoute ==
    [][ nreq' = nreq + 1
          => LET key == RouteKey(last'.url)
             IN  /\ MapGet(reqTimes', key) = MapGet(reqTimes, key) + 1
                 /\ \A k \in (DOMAIN reqTimes' \cup DOMAIN reqTimes) \ {key} :
                       MapGet(reqTimes', k) = MapGet(reqTimes, k)
                 /\ DOMAIN reqTimes' \subseteq RegisteredRoutes ]_vars

\* C2: when N requests to /ip have completed and none is in flight, the
\* counter of /ip is N; the seconds of /ip are never negative and never
\* decrease.
C2_CounterCountsEveryRequest ==
    [][ /\ Quiescent' => MapGet(reqTimes', S_ip) = NumDone'
        /\ MapGet(reqSeconds', S_ip) >= MapGet(reqSeconds, S_ip)
        /\ MapGet(reqSeconds', S_ip) >= 0 ]_vars

UploadTarget(i) == Resolve(UploadFullPath(gor[i].rq, dir))

\* C5: uploads in flight together, each to a destination of its own, all
\* answer, all with the success marker, and when all have completed every
\* destination holds the bytes of its own upload.
C5_ConcurrentUploadsSucceed ==
    /\ ~crashed
    /\ \A i \in DOMAIN gor : Done(i) => gor[i].text = Succeeded
    /\ (\A i \in DOMAIN gor : Done(i))
          => \A i \in DOMAIN gor :
                /\ IsFile(fs, UploadTarget(i))
                /\ fs[UploadTarget(i)] = FileEntry(gor[i].rq.data)

\* a coding of the Accept-Encoding lines, the part before ";" of an item
CodingOf(item) == TrimSpace(TakeUntil(item, ";"))

\* the request lists the token gzip among its accepted codings
ListsGzip(accept) ==
    \E l \in DOMAIN accept :
        \E k \in DOMAIN Split(accept[l], ",") :
            CodingOf(Split(accept[l], ",")[k]) = S_gzip

\* C8: when the request lists gzip, Content-Encoding: gzip is set before
\* the first byte of the body, every byte the handler writes goes through
\* the compressor, and the compressor is closed after the handler returns;
\* when it does not, no Content-Encoding is added and the bytes arrive as
\* the handler wrote them.
C8_GzipIffListed ==
    gz.pc = "done"
        => IF ListsGzip(gz.rq.accept)
           THEN /\ gz.enc = "gzip"
                /\ gz.encAtFirstByte \in {"none", "gzip"}
                /\ gz.compressor = gz.written
                /\ gz.closed = "after return"
           ELSE /\ gz.enc = ""
                /\ gz.wire = [i \in 1..Len(gz.written) |->
                                 [gzip |-> FALSE, data |-> <<gz.written[i]>>]]

====
